---- MODULE Spec2Model ----
(***************************************************************************)
(* Model of the nested-crossword evaluation harness:                       *)
(*   eval-llm.py          PuzzleEvaluation (session state, turn loop)      *)
(*   calculate_scores.py  calculate_score  (penalty formula)               *)
(*                                                                         *)
(* Python strings are modelled as sequences of one-character strings, so   *)
(* that `in`, str.replace, str.lower, str.strip and the command regex are  *)
(* computed on characters, as the code does.                               *)
(***************************************************************************)
EXTENDS Integers, Sequences, FiniteSets, TLC

VARIABLES
    state,      \* self.state: the session dictionary
    available,  \* run(): the local list `available`
    turn,       \* run(): number of loop iterations started so far
    response,   \* run(): the local `response` of the latest iteration
    prompt,     \* run(): which message the local `prompt` holds
    saved,      \* contents of score_file (NoRecord until first written)
    scores,     \* process_folder: the list `scores`
    pc,         \* where the run is: "running", "fatal" (the exception of
                \* get_llm_response left run()), "returned" (run() returned)
    consecutive_failures,
                \* get_llm_response: the local of that name (0 on entry)
    calls,      \* conversation.prompt calls made by the current (or, right
                \* after a turn, the latest) get_llm_response
    sleeps,     \* arguments of time.sleep in that same get_llm_response
    refused_reveals
                \* history: the bracket-free targets whose reveal was
                \* answered "not an available clue" so far

\* the variables of get_llm_response and of the end of the run
retry == <<pc, consecutive_failures, calls, sleeps>>

vars == <<state, available, turn, response, prompt, saved, scores,
          pc, consecutive_failures, calls, sleeps, refused_reveals>>

--------------------------------------------------------------------------
(* Bounds of the model *)

\* number of loop iterations explored (the loop itself allows max_guesses)
MaxTurns == 4
\* largest counter value of a score record given to calculate_score
MaxCount == 2
\* largest number of entries in the peeks / reveals list of such a record
MaxList == 2
\* number of loop iterations explored together with generation failures
MaxRetryTurns == 2
\* number of try/peek/reveal commands explored within a run of all
\* max_guesses iterations (see and unparsable responses are not limited)
MaxBusy == 1

(* Program constants *)

\* run(): max_guesses = 150
max_guesses == 150

\* score_file does not exist yet
NoRecord == [missing |-> TRUE]
NoResponse == <<>>

--------------------------------------------------------------------------
(* Strings *)

Min(S) == CHOOSE x \in S : \A y \in S : x <= y
Max(S) == CHOOSE x \in S : \A y \in S : x >= y

\* str.lower() on one character (the letters that occur in the model)
LowerChar(c) ==
    CASE c = "S" -> "s"
      [] c = "R" -> "r"
      [] c = "T" -> "t"
      [] c = "X" -> "x"
      [] OTHER -> c

\* str.lower()
lower(s) == [i \in 1..Len(s) |-> LowerChar(s[i])]

\* the places where `sub` occurs in `s` (0-based start offsets)
Occurrences(sub, s) ==
    {i \in 0..(Len(s) - Len(sub)) : SubSeq(s, i + 1, i + Len(sub)) = sub}

\* Python: sub in s
IsSubstring(sub, s) == Occurrences(sub, s) # {}

\* Python: s.replace(old, new, 1)
ReplaceFirst(s, old, new) ==
    IF Occurrences(old, s) = {} THEN s
    ELSE LET i == Min(Occurrences(old, s))
         IN  SubSeq(s, 1, i) \o new \o SubSeq(s, i + Len(old) + 1, Len(s))

\* Python: x in list
InList(x, list) == \E i \in 1..Len(list) : list[i] = x

Whitespace == {" ", "\n"}

\* Python: s.strip()
strip(s) ==
    LET keep == {i \in 1..Len(s) : s[i] \notin Whitespace}
    IN  IF keep = {} THEN <<>> ELSE SubSeq(s, Min(keep), Max(keep))

\* f"[{clue}]"
Bracketed(clue) == <<"[">> \o clue \o <<"]">>

--------------------------------------------------------------------------
(* Puzzles: the documents load_random_puzzle_excluding hands to the        *)
(* constructor.  `solutions` is a dict; its insertion order is the order   *)
(* of the sequence.  The loader checks only puzzleDate, so a document      *)
(* with a mistyped key (NestedTypo) is accepted like the others.           *)

\* "[p[q]]": q -> r, then "pr" -> S
Nested ==
    [ initialPuzzle  |-> <<"[", "p", "[", "q", "]", "]">>,
      solutions      |-> << [clue |-> <<"q">>,      answer |-> <<"r">>],
                            [clue |-> <<"p", "r">>, answer |-> <<"S">>] >>,
      puzzleSolution |-> <<"S">> ]

\* "[q]pr[pr]": two sibling clues; the text pr also occurs outside brackets
Flat ==
    [ initialPuzzle  |-> <<"[", "q", "]", "p", "r", "[", "p", "r", "]">>,
      solutions      |-> << [clue |-> <<"q">>,      answer |-> <<"r">>],
                            [clue |-> <<"p", "r">>, answer |-> <<"S">>] >>,
      puzzleSolution |-> <<"r", "p", "r", "S">> ]

\* "[p[q]]" whose outer key is "px" instead of "pr"
NestedTypo ==
    [ initialPuzzle  |-> <<"[", "p", "[", "q", "]", "]">>,
      solutions      |-> << [clue |-> <<"q">>,      answer |-> <<"r">>],
                            [clue |-> <<"p", "x">>, answer |-> <<"S">>] >>,
      puzzleSolution |-> <<"S">> ]

Puzzles == {Nested, Flat, NestedTypo}

\* puzzle['solutions'].keys()
Keys(puzzle) == [i \in 1..Len(puzzle.solutions) |-> puzzle.solutions[i].clue]

\* puzzle['solutions'][clue]
SolutionOf(puzzle, clue) ==
    LET i == CHOOSE j \in 1..Len(puzzle.solutions) : puzzle.solutions[j].clue = clue
    IN  puzzle.solutions[i].answer

--------------------------------------------------------------------------
(* What the generation collaborator may answer (before .strip()) *)

LLMOutputs ==
    { <<"s", "e", "e", "\n">>,
      <<"t", "r", "y", "r">>,
      <<"t", "r", "y", " ", "r">>,
      <<"T", "r", "y", " ", "s">>,
      <<"t", "r", "y", " ", "x">>,
      <<"p", "e", "e", "k", " ", "q">>,
      <<"p", "e", "e", "k", " ", "p", "r">>,
      <<"r", "e", "v", "e", "a", "l", " ", "q">>,
      <<"r", "e", "v", "e", "a", "l", " ", "p", "r">>,
      <<"r", "e", "v", "e", "a", "l", " ", "p", "[", "q", "]">>,
      <<"r", "e", "v", "e", "a", "l", " ", "q", "]">> }

--------------------------------------------------------------------------
(* Command interpretation: run(), lines 102-112 *)

Verbs == { <<"t", "r", "y">>, <<"p", "e", "e", "k">>, <<"r", "e", "v", "e", "a", "l">> }

\* the verbs of (try|peek|reveal) that match at the start, re.IGNORECASE
VerbsAt(r) == {v \in Verbs : Len(r) >= Len(v) /\ lower(SubSeq(r, 1, Len(v))) = v}

\* \s+ : how many whitespace characters follow position k
WhitespaceRun(r, k) ==
    Max({n \in 0..(Len(r) - k) : \A i \in 1..n : r[k + i] \in Whitespace})

\* numbers of characters \s+ may take so that (.+) still has a character
\* to match ('.' matches anything but a newline)
Splits(r, k) ==
    {n \in 1..WhitespaceRun(r, k) : k + n + 1 <= Len(r) /\ r[k + n + 1] # "\n"}

\* re.match(r"(try|peek|reveal)\s+(.+)", response, re.IGNORECASE)
Matches(r) == \E v \in VerbsAt(r) : Splits(r, Len(v)) # {}

\* match.groups()[0].lower()
Cmd(r) == CHOOSE v \in VerbsAt(r) : Splits(r, Len(v)) # {}

\* match.groups()[1]: greedy \s+, then greedy (.+) up to the end of the line
Target(r) ==
    LET k     == Len(Cmd(r))
        first == k + Max(Splits(r, k)) + 1
        stops == {i \in first..Len(r) : r[i] = "\n"}
        last  == IF stops = {} THEN Len(r) ELSE Min(stops) - 1
    IN  SubSeq(r, first, last)

See == <<"s", "e", "e">>

--------------------------------------------------------------------------
(* Session state: __init__ and initialize_new_state *)

initialize_new_state(puzzle) ==
    [ peeks           |-> <<>>,
      completed       |-> FALSE,
      failed_reveals  |-> <<>>,
      failed_peeks    |-> <<>>,
      reveals         |-> <<>>,
      repeat_reveals  |-> 0,
      repeat_peeks    |-> 0,
      wrong_guesses   |-> 0,
      correct         |-> 0,
      repeats         |-> 0,
      current_puzzle  |-> puzzle,
      puzzle_state    |-> puzzle.initialPuzzle,
      failed_attempts |-> <<>> ]

\* variant: every key is listed, whatever the text
get_available_clues_all(st) == Keys(st.current_puzzle)

\* get_available_clues: the keys that occur in the current text
get_available_clues(st) ==
    SelectSeq(Keys(st.current_puzzle),
              LAMBDA clue : IsSubstring(clue, st.puzzle_state))

\* variant: the session counts as complete when no clue is left to attempt
check_completion_no_clue_left(st) == get_available_clues(st) = <<>>

check_completion(st) == st.puzzle_state = st.current_puzzle.puzzleSolution

Init ==
    /\ \E puzzle \in Puzzles :
         /\ state = initialize_new_state(puzzle)
         /\ available = get_available_clues(initialize_new_state(puzzle))
    /\ turn = 0
    /\ response = NoResponse
    /\ prompt = "initial"
    /\ saved = NoRecord
    /\ scores = <<>>
    /\ pc = "running"
    /\ consecutive_failures = 0
    /\ calls = 0
    /\ sleeps = <<>>
    /\ refused_reveals = {}

--------------------------------------------------------------------------
(* The turn loop: run() *)

\* variant: an iteration that does not use up the range
NextResponse_uncounted(raw) ==
    /\ pc = "running"
    /\ turn < max_guesses
    /\ turn' = turn
    /\ response' = strip(raw)
    /\ calls' = IF consecutive_failures = 0 THEN 1 ELSE calls + 1
    /\ sleeps' = IF consecutive_failures = 0 THEN <<>> ELSE sleeps
    /\ consecutive_failures' = 0
    /\ pc' = pc

\* for _ in range(max_guesses): get_llm_response returns the stripped text
\* of a generation call that succeeded (lines 199-200); the next iteration
\* enters get_llm_response anew, with consecutive_failures = 0
NextResponse(raw) ==
    /\ pc = "running"
    /\ turn < max_guesses
    /\ turn' = turn + 1
    /\ response' = strip(raw)
    /\ calls' = IF consecutive_failures = 0 THEN 1 ELSE calls + 1
    /\ sleeps' = IF consecutive_failures = 0 THEN <<>> ELSE sleeps
    /\ consecutive_failures' = 0
    /\ pc' = pc

\* lines 180-183: save_state(), then check_completion
EndOfIteration(st) ==
    /\ saved' = st
    /\ state' = IF check_completion(st) THEN [st EXCEPT !.completed = TRUE] ELSE st

\* lines 102-105: `see` shows the text and continues
SeeTurn(raw) ==
    /\ NextResponse(raw)
    /\ strip(raw) = See
    /\ prompt' = "puzzle is now"
    /\ UNCHANGED <<state, available, saved, scores, refused_reveals>>

\* variant: an unparsable response is charged as a wrong guess
MalformedTurn_charged(raw) ==
    /\ NextResponse(raw)
    /\ strip(raw) # See
    /\ ~Matches(strip(raw))
    /\ prompt' = "not understood"
    /\ state' = [state EXCEPT !.wrong_guesses = state.wrong_guesses + 1]
    /\ UNCHANGED <<available, saved, scores, refused_reveals>>

\* lines 106-109: no match, continue
MalformedTurn(raw) ==
    /\ NextResponse(raw)
    /\ strip(raw) # See
    /\ ~Matches(strip(raw))
    /\ prompt' = "not understood"
    /\ UNCHANGED <<state, available, saved, scores, refused_reveals>>

\* positions in `available` whose solution equals the target, ignoring case
Hits(avail, puzzle, target) ==
    {i \in 1..Len(avail) : lower(SolutionOf(puzzle, avail[i])) = lower(target)}

\* variant: a correct answer also clears the list of failed attempts
TryCorrect_forgets_failures(st, avail, target) ==
    LET clue == avail[Min(Hits(avail, st.current_puzzle, target))]
    IN  [st EXCEPT !.puzzle_state =
                       ReplaceFirst(st.puzzle_state, Bracketed(clue),
                                    SolutionOf(st.current_puzzle, clue)),
                   !.correct = st.correct + 1,
                   !.failed_attempts = <<>>]

\* lines 116-125: the first available clue whose solution matches
TryCorrect(st, avail, target) ==
    LET clue == avail[Min(Hits(avail, st.current_puzzle, target))]
    IN  [st EXCEPT !.puzzle_state =
                       ReplaceFirst(st.puzzle_state, Bracketed(clue),
                                    SolutionOf(st.current_puzzle, clue)),
                   !.correct = st.correct + 1]

\* lines 126-133
TryWrong(st, target) ==
    IF InList(target, st.failed_attempts)
    THEN [st EXCEPT !.repeats = st.repeats + 1]
    ELSE [st EXCEPT !.wrong_guesses = st.wrong_guesses + 1,
                    !.failed_attempts = Append(st.failed_attempts, target)]

\* lines 114-133, then 180-183
TryTurn(raw) ==
    /\ NextResponse(raw)
    /\ strip(raw) # See
    /\ Matches(strip(raw))
    /\ Cmd(strip(raw)) = <<"t", "r", "y">>
    /\ LET target == Target(strip(raw))
       IN  IF Hits(available, state.current_puzzle, target) # {}
           THEN LET st == TryCorrect(state, available, target)
                IN  /\ prompt' = "was correct"
                    /\ available' = get_available_clues(st)
                    /\ EndOfIteration(st)
           ELSE /\ prompt' = IF InList(target, state.failed_attempts)
                             THEN "already tried" ELSE "not a correct solution"
                /\ available' = available
                /\ EndOfIteration(TryWrong(state, target))
    /\ UNCHANGED <<scores, refused_reveals>>

\* variant: a repeated peek is also appended to peeks again
PeekState_appends_again(st, avail, target) ==
    IF InList(target, avail)
    THEN IF InList(target, st.peeks)
         THEN [st EXCEPT !.repeat_peeks = st.repeat_peeks + 1,
                         !.peeks = Append(st.peeks, target)]
         ELSE [st EXCEPT !.peeks = Append(st.peeks, target)]
    ELSE IF InList(target, st.failed_peeks)
         THEN [st EXCEPT !.repeat_peeks = st.repeat_peeks + 1]
         ELSE [st EXCEPT !.failed_peeks = Append(st.failed_peeks, target)]

\* lines 135-150
PeekState(st, avail, target) ==
    IF InList(target, avail)
    THEN IF InList(target, st.peeks)
         THEN [st EXCEPT !.repeat_peeks = st.repeat_peeks + 1]
         ELSE [st EXCEPT !.peeks = Append(st.peeks, target)]
    ELSE IF InList(target, st.failed_peeks)
         THEN [st EXCEPT !.repeat_peeks = st.repeat_peeks + 1]
         ELSE [st EXCEPT !.failed_peeks = Append(st.failed_peeks, target)]

PeekPrompt(st, avail, target) ==
    IF InList(target, avail)
    THEN IF InList(target, st.peeks) THEN "already peeked" ELSE "first letter"
    ELSE IF InList(target, st.failed_peeks)
         THEN "already tried to peek" ELSE "cannot peek"

\* lines 135-150, then 180-183
PeekTurn(raw) ==
    /\ NextResponse(raw)
    /\ strip(raw) # See
    /\ Matches(strip(raw))
    /\ Cmd(strip(raw)) = <<"p", "e", "e", "k">>
    /\ prompt' = PeekPrompt(state, available, Target(strip(raw)))
    /\ available' = available
    /\ EndOfIteration(PeekState(state, available, Target(strip(raw))))
    /\ UNCHANGED <<scores, refused_reveals>>

\* line 153: "[" in target
ContainsMultipleClues(target) == IsSubstring(<<"[">>, target)

\* line 155: list += str extends the list by the characters of the string
ExtendByChars(list, str) == list \o [i \in 1..Len(str) |-> <<str[i]>>]

\* lines 152-176
RevealState(st, avail, target) ==
    IF ContainsMultipleClues(target)
    THEN [st EXCEPT !.failed_reveals = ExtendByChars(st.failed_reveals, target)]
    ELSE IF InList(target, avail)
    THEN IF InList(target, st.reveals)
         THEN [st EXCEPT !.repeat_reveals = st.repeat_reveals + 1]
         ELSE [st EXCEPT !.reveals = Append(st.reveals, target),
                         !.puzzle_state =
                             ReplaceFirst(st.puzzle_state, Bracketed(target),
                                          SolutionOf(st.current_puzzle, target))]
    ELSE IF InList(target, st.failed_reveals)
         THEN [st EXCEPT !.repeat_reveals = st.repeat_reveals + 1,
                         !.failed_reveals = Append(st.failed_reveals, target)]
         ELSE [st EXCEPT !.failed_reveals = Append(st.failed_reveals, target)]

RevealPrompt(st, avail, target) ==
    IF ContainsMultipleClues(target) THEN "contains multiple clues"
    ELSE IF InList(target, avail)
    THEN IF InList(target, st.reveals) THEN "already revealed" ELSE "the solution is"
    ELSE IF InList(target, st.failed_reveals)
         THEN "already tried to reveal" ELSE "cannot reveal"

\* variant: the list is not recomputed after a reveal
RevealAvailable_stale(st, avail, target) == avail

\* line 165: `available` is recomputed only after a first-time reveal
RevealAvailable(st, avail, target) ==
    IF /\ ~ContainsMultipleClues(target)
       /\ InList(target, avail)
       /\ ~InList(target, st.reveals)
    THEN get_available_clues(RevealState(st, avail, target))
    ELSE avail

\* lines 170-176 are reached: no "[" in the target, target not in available
Refused(refused, avail, target) ==
    IF ~ContainsMultipleClues(target) /\ ~InList(target, avail)
    THEN refused \cup {target}
    ELSE refused

\* lines 152-176, then 180-183
RevealTurn(raw) ==
    /\ NextResponse(raw)
    /\ strip(raw) # See
    /\ Matches(strip(raw))
    /\ Cmd(strip(raw)) = <<"r", "e", "v", "e", "a", "l">>
    /\ prompt' = RevealPrompt(state, available, Target(strip(raw)))
    /\ available' = RevealAvailable(state, available, Target(strip(raw)))
    /\ EndOfIteration(RevealState(state, available, Target(strip(raw))))
    /\ refused_reveals' = Refused(refused_reveals, available, Target(strip(raw)))
    /\ UNCHANGED scores

\* the first MaxTurns iterations, every generation call succeeding at once
Next ==
    \E raw \in LLMOutputs :
        /\ turn < MaxTurns
        /\ \/ SeeTurn(raw)
           \/ MalformedTurn(raw)
           \/ TryTurn(raw)
           \/ PeekTurn(raw)
           \/ RevealTurn(raw)

Spec == Init /\ [][Next]_vars

--------------------------------------------------------------------------
(* get_llm_response with failing generation calls, and the end of run() *)

\* variant: gives up one failure later
GivesUp_late(failures) == failures > 5

\* line 202: if consecutive_failures >= 5: raise e
GivesUp(failures) == failures >= 5

\* variant: the wait is computed from the incremented failure count
time_to_sleep_incremented(failures) == 1 + 5 * (failures + 1)

\* line 205: time_to_sleep = 1 + 5 * consecutive_failures
time_to_sleep(failures) == 1 + 5 * failures

\* lines 199-208: conversation.prompt raises llm.errors.ModelError; either
\* the error is re-raised and leaves run(), or the call sleeps and loops
GenerationFails ==
    /\ pc = "running"
    /\ turn < max_guesses
    /\ calls' = IF consecutive_failures = 0 THEN 1 ELSE calls + 1
    /\ IF GivesUp(consecutive_failures)
       THEN /\ pc' = "fatal"
            /\ UNCHANGED <<consecutive_failures, sleeps>>
       ELSE /\ sleeps' = Append(IF consecutive_failures = 0 THEN <<>> ELSE sleeps,
                                time_to_sleep(consecutive_failures))
            /\ consecutive_failures' = consecutive_failures + 1
            /\ pc' = pc
    /\ UNCHANGED <<state, available, turn, response, prompt, saved, scores,
                   refused_reveals>>

\* line 98: range(max_guesses) is exhausted, run() returns
LoopExit ==
    /\ pc = "running"
    /\ turn = max_guesses
    /\ pc' = "returned"
    /\ UNCHANGED <<state, available, turn, response, prompt, saved, scores,
                   consecutive_failures, calls, sleeps, refused_reveals>>

\* the first MaxRetryTurns iterations, generation calls failing at will;
\* one answer carries a second line
RetryOutputs == LLMOutputs \cup { <<"t", "r", "y", " ", "r", "\n", "x">> }

RetryNext ==
    \/ \E raw \in RetryOutputs :
         /\ turn < MaxRetryTurns
         /\ \/ SeeTurn(raw)
            \/ MalformedTurn(raw)
            \/ TryTurn(raw)
            \/ PeekTurn(raw)
            \/ RevealTurn(raw)
    \/ (turn < MaxRetryTurns /\ GenerationFails)

SpecRetry == Init /\ [][RetryNext]_vars

\* how many try/peek/reveal commands the record shows at least
Busy(st) ==
    st.correct + st.wrong_guesses + st.repeats
      + Len(st.peeks) + st.repeat_peeks + Len(st.failed_peeks)
      + Len(st.reveals) + st.repeat_reveals + Len(st.failed_reveals)

\* a whole run: all max_guesses iterations, at most MaxBusy of them a
\* try/peek/reveal, generation calls failing at will
LoopOutputs ==
    { <<"s", "e", "e", "\n">>,
      <<"t", "r", "y", "r">>,
      <<"t", "r", "y", " ", "r">>,
      <<"p", "e", "e", "k", " ", "q">>,
      <<"r", "e", "v", "e", "a", "l", " ", "q">> }

LoopNext ==
    \/ \E raw \in LoopOutputs :
         \/ SeeTurn(raw)
         \/ MalformedTurn(raw)
         \/ (Busy(state) < MaxBusy /\ TryTurn(raw))
         \/ (Busy(state) < MaxBusy /\ PeekTurn(raw))
         \/ (Busy(state) < MaxBusy /\ RevealTurn(raw))
    \/ GenerationFails
    \/ LoopExit

\* the run of one puzzle
LoopInit == Init /\ state.current_puzzle = Nested

SpecLoop == LoopInit /\ [][LoopNext]_vars

\* every generation call eventually returns or fails, and the loop goes on
SpecLoopFair == SpecLoop /\ WF_vars(LoopNext)

--------------------------------------------------------------------------
(* Scoring: calculate_scores.py *)

\* variant: the result is floored at zero
calculate_score_floored(data) ==
    LET raw == 500 - data.wrong_guesses * 1 - data.repeats * 2
                   - (Len(data.peeks) * 4 + data.repeat_peeks * 8)
                   - (Len(data.reveals) * 15 + data.repeat_reveals * 45)
                   - (IF ~data.completed THEN 500 ELSE 0)
    IN  IF raw < 0 THEN 0 ELSE raw

\* calculate_score, statement by statement
calculate_score(data) ==
    LET score0 == 500
        score1 == score0 - data.wrong_guesses * 1
        score2 == score1 - data.repeats * 2
        unique_peeks == Len(data.peeks)
        peek_cost == unique_peeks * 4 + data.repeat_peeks * 8
        score3 == score2 - peek_cost
        unique_reveals == Len(data.reveals)
        reveal_cost == unique_reveals * 15 + data.repeat_reveals * 45
        score4 == score3 - reveal_cost
    IN  IF ~data.completed THEN score4 - 500 ELSE score4

\* a list of n distinct clue names: "q", "qq", ...
ClueList(n) == [i \in 1..n |-> [j \in 1..i |-> "q"]]

\* the score records process_folder may find in a folder
ScoreRecords ==
    { [initialize_new_state(Flat) EXCEPT
           !.wrong_guesses = w, !.repeats = r,
           !.peeks = ClueList(p), !.repeat_peeks = rp,
           !.reveals = ClueList(v), !.repeat_reveals = rv,
           !.completed = c] :
        w \in 0..MaxCount, r \in 0..MaxCount,
        p \in 0..MaxList, rp \in 0..MaxCount,
        v \in 0..MaxList, rv \in 0..MaxCount,
        c \in BOOLEAN }

ScoreInit ==
    /\ saved \in ScoreRecords
    /\ state = saved
    /\ available = <<>>
    /\ turn = 0
    /\ response = NoResponse
    /\ prompt = "initial"
    /\ scores = <<>>
    /\ pc = "returned"
    /\ consecutive_failures = 0
    /\ calls = 0
    /\ sleeps = <<>>
    /\ refused_reveals = {}

\* process_folder, lines 43-45: data = json.load(f); calculate_score(data)
process_file ==
    /\ scores = <<>>
    /\ saved # NoRecord
    /\ scores' = Append(scores, calculate_score(saved))
    /\ UNCHANGED <<state, available, turn, response, prompt, saved, retry, refused_reveals>>

ScoreNext == process_file

SpecScore == ScoreInit /\ [][ScoreNext]_vars

--------------------------------------------------------------------------
(* Vocabulary of the properties *)

Solved(st) == st.puzzle_state = st.current_puzzle.puzzleSolution

\* the fields calculate_score charges for
Charges(st) ==
    <<st.wrong_guesses, st.repeats, st.peeks, st.repeat_peeks,
      st.reveals, st.repeat_reveals>>

NoDuplicates(list) ==
    \A i, j \in 1..Len(list) : list[i] = list[j] => i = j

\* this step is a loop iteration whose response parsed as the given verb
CommandStep(verb) ==
    /\ turn' = turn + 1
    /\ Matches(response')
    /\ Cmd(response') = verb

\* the placeholder "[clue]" occurs literally in the text
PlaceholderIn(clue, text) == IsSubstring(Bracketed(clue), text)

--------------------------------------------------------------------------
(* C1: once puzzle_state equals the full solution text the turn loop      *)
(* stops: no further response is requested (turn does not advance) and    *)
(* no session field changes in any later step.                            *)
C1_StopsOnceSolved ==
    [][Solved(state) => (turn' = turn /\ state' = state)]_vars

(* C2: after every turn the record written by save_state equals the       *)
(* in-memory session state field for field, the completed flag included.  *)
C2_RecordEqualsState ==
    (turn > 0 /\ saved # NoRecord) => saved = state

(* C3: completed becomes true in the very turn whose substitution makes   *)
(* puzzle_state equal to the full solution text, and it is false as long  *)
(* as puzzle_state has never been equal to it (it starts false and only a *)
(* step that ends with the solved text may raise it).                     *)
C3_CompletedOnFinalSubstitution ==
    /\ ~state.completed
    /\ [][/\ (~Solved(state) /\ Solved(state')) => state'.completed
          /\ (~state.completed /\ state'.completed) => Solved(state')]_vars

C3_Witness ==
    /\ state.completed
    /\ Solved(state)
    /\ prompt \in {"was correct", "the solution is"}
    /\ state.correct + Len(state.reveals) >= 2

(* C4: a clue is reported available by get_available_clues if and only if *)
(* its bracketed form "[clue]" occurs literally in puzzle_state.           *)
C4_AvailableIffBracketed ==
    \A i \in 1..Len(Keys(state.current_puzzle)) :
        LET clue == Keys(state.current_puzzle)[i]
        IN  InList(clue, get_available_clues(state))
                <=> PlaceholderIn(clue, state.puzzle_state)

(* C5: if at the start of a turn no clue is available while the text      *)
(* differs from the full solution (stuck), the session stops with         *)
(* completed = false: no further command is processed, nothing changes.   *)
C5_StuckStops ==
    [][(get_available_clues(state) = <<>> /\ ~Solved(state))
          => (turn' = turn /\ state' = state /\ ~state.completed)]_vars

C7_AtMostOnceCharge ==
    /\ [](NoDuplicates(state.peeks) /\ NoDuplicates(state.reveals))
    /\ [][/\ ( /\ CommandStep(<<"p", "e", "e", "k">>)
               /\ InList(Target(response'), available)
               /\ InList(Target(response'), state.peeks) )
             => /\ Charges(state') =
                      <<state.wrong_guesses, state.repeats, state.peeks,
                        state.repeat_peeks + 1, state.reveals, state.repeat_reveals>>
                /\ state'.puzzle_state = state.puzzle_state
          /\ ( /\ CommandStep(<<"r", "e", "v", "e", "a", "l">>)
               /\ InList(Target(response'), available)
               /\ InList(Target(response'), state.reveals) )
             => /\ Charges(state') =
                      <<state.wrong_guesses, state.repeats, state.peeks,
                        state.repeat_peeks, state.reveals, state.repeat_reveals + 1>>
                /\ state'.puzzle_state = state.puzzle_state]_vars

C7_Witness ==
    /\ prompt = "already revealed"
    /\ state.repeat_reveals = 1
    /\ state.repeat_peeks = 1
    /\ state.failed_peeks = <<>>
    /\ Len(state.peeks) = 1
    /\ Len(state.reveals) = 1

(* C8: a reveal whose argument contains a bracket character, '[' or ']',   *)
(* changes neither puzzle_state nor reveals nor any score counter.         *)
C8_BracketRevealChargesNothing ==
    [][( /\ CommandStep(<<"r", "e", "v", "e", "a", "l">>)
         /\ \/ IsSubstring(<<"[">>, Target(response'))
            \/ IsSubstring(<<"]">>, Target(response')) )
          => /\ state'.puzzle_state = state.puzzle_state
             /\ Charges(state') = Charges(state)]_vars

(* C9: a try whose answer matches, ignoring case, the solution of no clue  *)
(* whose placeholder is in the text changes exactly one counter: repeats   *)
(* if the exact string is in failed_attempts, else wrong_guesses (and the  *)
(* string is recorded); puzzle_state is untouched; failed_attempts has no  *)
(* duplicates and wrong_guesses equals its length.                         *)
C9_FailedTry ==
    /\ [](/\ NoDuplicates(state.failed_attempts)
          /\ state.wrong_guesses = Len(state.failed_attempts))
    /\ [][( /\ CommandStep(<<"t", "r", "y">>)
            /\ \A i \in 1..Len(Keys(state.current_puzzle)) :
                 LET clue == Keys(state.current_puzzle)[i]
                 IN  PlaceholderIn(clue, state.puzzle_state)
                       => lower(SolutionOf(state.current_puzzle, clue))
                             # lower(Target(response')) )
          => /\ state'.puzzle_state = state.puzzle_state
             /\ state'.correct = state.correct
             /\ IF InList(Target(response'), state.failed_attempts)
                THEN /\ state'.repeats = state.repeats + 1
                     /\ state'.wrong_guesses = state.wrong_guesses
                     /\ state'.failed_attempts = state.failed_attempts
                ELSE /\ state'.repeats = state.repeats
                     /\ state'.wrong_guesses = state.wrong_guesses + 1
                     /\ state'.failed_attempts =
                            Append(state.failed_attempts, Target(response'))]_vars

(* C10: a `see` response and an unparsable response leave every field of   *)
(* the session state (and the saved record and the available list) as it   *)
(* was; they only use up one turn.                                         *)
C10_SeeAndMalformedChangeNothing ==
    [][(turn' # turn /\ (response' = See \/ ~Matches(response')))
          => /\ state' = state
             /\ saved' = saved
             /\ available' = available
             /\ turn' = turn + 1]_vars

C10_Witness ==
    /\ prompt = "not understood"
    /\ response = <<"t", "r", "y", "r">>
    /\ state.correct = 1
    /\ state.wrong_guesses = 1
    /\ turn = 3

--------------------------------------------------------------------------
(* More vocabulary *)

IsPrefix(a, b) == Len(a) <= Len(b) /\ SubSeq(b, 1, Len(a)) = a

CountChar(c, s) == Cardinality({i \in 1..Len(s) : s[i] = c})

ClueSet(st) == {Keys(st.current_puzzle)[i] : i \in 1..Len(Keys(st.current_puzzle))}

\* the text of clue `outer` as long as clue `inner` inside it is unresolved
WithUnresolved(outer, inner, puzzle) ==
    ReplaceFirst(outer, SolutionOf(puzzle, inner), Bracketed(inner))

\* the placeholder of `outer` is in the text and still contains "[inner]"
NestedIn(outer, inner, st) ==
    /\ outer # inner
    /\ WithUnresolved(outer, inner, st.current_puzzle) # outer
    /\ PlaceholderIn(WithUnresolved(outer, inner, st.current_puzzle), st.puzzle_state)

--------------------------------------------------------------------------
(* C11: every run terminates: it obtains at most max_guesses = 150        *)
(* responses and then ends (run() returns after exactly 150, or a fatal   *)
(* generation failure ends it earlier), given that every generation call  *)
(* eventually returns or fails.                                           *)
C11_RunTerminates ==
    /\ [](turn <= max_guesses /\ (pc = "returned" => turn = max_guesses))
    /\ <>(pc \in {"returned", "fatal"})

C11_Witness ==
    /\ pc = "returned"
    /\ turn = max_guesses
    /\ state.correct = 1

(* C12: within one turn get_llm_response makes at most 6 generation       *)
(* calls: each of the first 5 consecutive failures is retried, a success  *)
(* at any attempt ends the waiting at once (the turn is processed with    *)
(* that response), the 6th consecutive failure is fatal and after it      *)
(* nothing happens any more; the failure count is 0 again when the next   *)
(* turn begins.                                                           *)
C12_BoundedRetry ==
    /\ [](/\ calls <= 6
          /\ consecutive_failures <= 5
          /\ (pc = "fatal" => (calls = 6 /\ consecutive_failures = 5)))
    /\ [][/\ (pc = "fatal" => vars' = vars)
          /\ (turn' = turn + 1
                => /\ consecutive_failures' = 0
                   /\ calls' = consecutive_failures + 1
                   /\ pc' = "running")
          /\ ((turn' = turn /\ pc = "running" /\ pc' = "fatal")
                => /\ consecutive_failures = 5
                   /\ state' = state /\ saved' = saved)
          /\ ((turn' = turn /\ pc' = "running" /\ vars' # vars)
                => /\ consecutive_failures < 5
                   /\ consecutive_failures' = consecutive_failures + 1
                   /\ calls' = consecutive_failures'
                   /\ state' = state /\ saved' = saved)]_vars

C12_Witness ==
    /\ pc = "fatal"
    /\ turn = 1
    /\ calls = 6
    /\ state.correct = 1

(* C18: a response is taken as a command if and only if it is `see` or    *)
(* one single line "verb whitespace argument" (verb try, peek or reveal   *)
(* in any case, argument running to the end of the response); any other   *)
(* response, one with further lines after the command included, is        *)
(* answered as not understood and changes no state.                       *)
C18_OnlySingleLineCommands ==
    [][turn' = turn + 1
         => IF \/ response' = See
               \/ (Matches(response') /\ ~IsSubstring(<<"\n">>, response'))
            THEN prompt' # "not understood"
            ELSE prompt' = "not understood" /\ state' = state]_vars

(* C19 as claimed: the wait before the k-th retry of a turn is 1 + 5*k,   *)
(* for k = 1..5.                                                          *)
C19_BackoffAsClaimed ==
    \A k \in 1..Len(sleeps) : sleeps[k] = 1 + 5 * k

(* C19: the wait before the k-th retry of a turn is 1 + 5*(k-1) time      *)
(* units for k = 1..5 (1, 6, 11, 16, 21), so it grows by 5 from one retry *)
(* to the next; every retry waits exactly once; no wait happens after a   *)
(* successful call or before the fatal 6th failure is raised.             *)
C19_Backoff ==
    /\ [](/\ Len(sleeps) <= 5
          /\ \A k \in 1..Len(sleeps) : sleeps[k] = 1 + 5 * (k - 1)
          /\ \A k \in 2..Len(sleeps) : sleeps[k] = sleeps[k - 1] + 5
          /\ (consecutive_failures > 0 => Len(sleeps) = consecutive_failures))
    /\ [][/\ ((turn' = turn + 1 \/ pc' = "fatal") => Len(sleeps') <= Len(sleeps))
          /\ (consecutive_failures' = consecutive_failures + 1
                => Len(sleeps') = consecutive_failures')]_vars

C19_Witness ==
    /\ pc = "fatal"
    /\ sleeps = <<1, 6, 11, 16, 21>>

(* C13: across every step the lists peeks, reveals, failed_attempts,      *)
(* failed_peeks and failed_reveals only grow at the end (no element is    *)
(* removed) and none of wrong_guesses, repeats, repeat_peeks,             *)
(* repeat_reveals, correct decreases.                                     *)
C13_Monotone ==
    [][/\ IsPrefix(state.peeks, state'.peeks)
       /\ IsPrefix(state.reveals, state'.reveals)
       /\ IsPrefix(state.failed_attempts, state'.failed_attempts)
       /\ IsPrefix(state.failed_peeks, state'.failed_peeks)
       /\ IsPrefix(state.failed_reveals, state'.failed_reveals)
       /\ state'.wrong_guesses >= state.wrong_guesses
       /\ state'.repeats >= state.repeats
       /\ state'.repeat_peeks >= state.repeat_peeks
       /\ state'.repeat_reveals >= state.repeat_reveals
       /\ state'.correct >= state.correct]_vars

C13_Witness ==
    /\ state.correct = 1
    /\ state.wrong_guesses = 1
    /\ Len(state.failed_attempts) = 1
    /\ Len(state.peeks) = 1
    /\ Len(state.failed_reveals) >= 1
    /\ prompt = "was correct"

(* C14: a reveal of a bracket-free target that is not in the available    *)
(* list increments repeat_reveals if and only if that exact target was    *)
(* refused as unavailable by an earlier reveal of the session; the first  *)
(* such reveal of a target changes no score counter, whatever             *)
(* bracket-containing reveals were rejected before.                       *)
C14_RepeatRevealOnlyAfterRefusal ==
    [][( /\ CommandStep(<<"r", "e", "v", "e", "a", "l">>)
         /\ ~IsSubstring(<<"[">>, Target(response'))
         /\ ~IsSubstring(<<"]">>, Target(response'))
         /\ ~InList(Target(response'), available) )
          => IF Target(response') \in refused_reveals
             THEN state'.repeat_reveals = state.repeat_reveals + 1
             ELSE Charges(state') = Charges(state)]_vars

(* C15: every try counted as correct and every first-time reveal replaces *)
(* exactly one placeholder "[clue]" (its first occurrence) by             *)
(* solutions[clue] and changes nothing else in the text; hence the number *)
(* of placeholders removed since the initial text equals                  *)
(* correct + |reveals|; a correct try adds exactly 1 to correct and       *)
(* touches no penalty counter.                                            *)
C15_OnePlaceholderPerSuccess ==
    /\ [](CountChar("[", state.current_puzzle.initialPuzzle)
             - CountChar("[", state.puzzle_state)
           = state.correct + Len(state.reveals))
    /\ [][/\ state'.correct # state.correct
             => /\ state'.correct = state.correct + 1
                /\ Charges(state') = Charges(state)
                /\ \E clue \in ClueSet(state) :
                     /\ PlaceholderIn(clue, state.puzzle_state)
                     /\ state'.puzzle_state =
                            ReplaceFirst(state.puzzle_state, Bracketed(clue),
                                         SolutionOf(state.current_puzzle, clue))
          /\ state'.reveals # state.reveals
             => /\ state'.reveals = Append(state.reveals, Target(response'))
                /\ PlaceholderIn(Target(response'), state.puzzle_state)
                /\ state'.puzzle_state =
                       ReplaceFirst(state.puzzle_state, Bracketed(Target(response')),
                                    SolutionOf(state.current_puzzle, Target(response')))]_vars

C17_FailedPeek ==
    [][CommandStep(<<"p", "e", "e", "k">>)
         => /\ state'.puzzle_state = state.puzzle_state
            /\ ~PlaceholderIn(Target(response'), state.puzzle_state)
                 => IF InList(Target(response'), state.failed_peeks)
                    THEN Charges(state') =
                           <<state.wrong_guesses, state.repeats, state.peeks,
                             state.repeat_peeks + 1, state.reveals,
                             state.repeat_reveals>>
                    ELSE /\ Charges(state') = Charges(state)
                         /\ state'.failed_peeks =
                                Append(state.failed_peeks, Target(response'))]_vars

(* C20: at the start of every turn the cached list `available` equals     *)
(* get_available_clues() of the current puzzle_state: every step that     *)
(* changes puzzle_state is a correct try or a first-time reveal and       *)
(* recomputes the list, and no other step changes puzzle_state.           *)
C20_AvailableIsCurrent ==
    /\ [](available = get_available_clues(state))
    /\ [][state'.puzzle_state # state.puzzle_state
            => /\ prompt' \in {"was correct", "the solution is"}
               /\ available' = get_available_clues(state')]_vars

C20_Witness ==
    /\ prompt = "the solution is"
    /\ state.current_puzzle = Nested
    /\ state.reveals = << <<"q">> >>
    /\ available = << <<"p", "r">> >>

====
